---- MODULE Spec2Model ----
(***************************************************************************)
(* U-ITE network observability core: the network state engine             *)
(* (tracking/state), the event detector (tracking/event_detector.py) and  *)
(* the observer loop (daemon/orchestrator.py).                            *)
(*                                                                         *)
(* The specifications share the variables below:                          *)
(*   Spec                  the state engine driven by update_state calls, *)
(*                         a clock and process restarts;                  *)
(*   SpecDetector          one EventDetector driven by analyze calls;     *)
(*   SpecDetectorNetworks  the same detector given the snapshots of two   *)
(*                         networks, next to one given a single network's;*)
(*   SpecDiagnostics       calls of run_diagnostics;                      *)
(*   SpecEvents            calls of EventFactory.create_event;            *)
(*   SpecRegistry          calls of add_event_definition and of           *)
(*                         create_event on the registry they extend;      *)
(*   SpecFingerprint       the network ids of two fingerprints;           *)
(*   SpecObserver          observe(): fingerprint, diagnostics, save_run, *)
(*                         analyze, one cycle per step, and shutdown;     *)
(*   SpecObserverLoop      observe() step by step: the start of a pass,   *)
(*                         its try block, the sleep loop, with the wall   *)
(*                         clock in ticks;                                *)
(*   SpecConcurrent        two callers of update_state whose reads and    *)
(*                         writes interleave;                             *)
(*   SpecClassifier        cycles that pass TruthEngine.evaluate's state  *)
(*                         to update_state;                               *)
(*   SpecPipeline          cycles that pass run_diagnostics' result to    *)
(*                         EventDetector.analyze;                         *)
(*   SpecAutomation        the loop of automation/observe.py step by      *)
(*                         step, with the wall clock in ticks.            *)
(* Python None is modelled by the string "None" where the value is a      *)
(* string or an enum member and by NULL where it is a number.             *)
(***************************************************************************)
EXTENDS Integers, Sequences, FiniteSets, TLC

VARIABLES
    _states,          \* NetworkStateEngine._states: network id -> state | None
    _down_since,      \* NetworkStateEngine._down_since: network id -> time | NULL
    network_states,   \* table network_states (state history), in insertion order
    now,              \* the wall clock (seconds)
    result,           \* the value returned by the last update_state call
    engine_events,    \* the events update_state calls have returned, in order
    callers,          \* the update_state calls in progress: caller -> locals
    overlapped,       \* network id -> two calls for it have been in progress at once
    call,             \* the last operation performed and its arguments
    degraded_count,   \* EventDetector.degraded_count
    healthy_count,    \* EventDetector.healthy_count
    last_status_change_time,  \* EventDetector.last_status_change_time
    state,            \* EventDetector.state (EventState: network_id, verdict, online)
    events,           \* the list returned by the last analyze call
    log,              \* the last analyze calls, oldest first (at most LogLen)
    status_changes,   \* times of the NETWORK_STATUS_CHANGE events emitted so far
    solo,             \* a second EventDetector, given one network's snapshots only
    diagnostic_runs,  \* table diagnostic_runs, in insertion order
    profiles,         \* NetworkProfileManager.profiles, in creation order
    outage_started,   \* ObserverState.outage_started: time | NULL
    diagnosis,        \* the last run_diagnostics call: probe outcomes and result
    creation,         \* the last EventFactory.create_event call: arguments and outcome
    event_store,      \* the events saved with EventStore.save_event
    running,          \* ObserverState.running
    observing,        \* observe() has been called and has not returned
    event_definitions,  \* EventFactory.EVENT_DEFINITIONS: event type -> metadata
    pc,               \* where observe() is: "while", "cycle", "sleep", "sleeping"
    start_time,       \* start_time of observe(): time.time() in ticks | NULL
    sleep_left,       \* the iterations left of the sleep loop of observe()
    subsecond         \* the ticks of the wall clock past the whole second

vars == <<_states, _down_since, network_states, now, result, engine_events,
          callers, overlapped, call,
          degraded_count, healthy_count, last_status_change_time, state,
          events, log, status_changes, solo, diagnostic_runs, profiles,
          outage_started, diagnosis, creation, event_store, running,
          observing, event_definitions, pc, start_time, sleep_left,
          subsecond>>

engineVars == <<_states, _down_since, network_states, result, engine_events,
                callers, overlapped>>
detectorVars == <<degraded_count, healthy_count, last_status_change_time,
                  state, events, log, status_changes, solo>>
loopVars == <<pc, start_time, sleep_left, subsecond>>
observerVars == <<diagnostic_runs, profiles, outage_started, diagnosis,
                  creation, event_store, running, observing,
                  event_definitions, loopVars>>

-----------------------------------------------------------------------------
(* Bounds of the model *)

\* the engine's clock runs from 0 to MaxTime
MaxTime == 2
\* at most MaxHistory rows in network_states
MaxHistory == 3
\* the detector's clock runs MaxElapsed seconds past StartTime
MaxElapsed == 300
\* the clock value of the first cycle (time.time() is far past the cooldown)
StartTime == 1000
\* at most MaxRuns rows in diagnostic_runs
MaxRuns == 1
\* the observer's clock runs MaxElapsedObserver seconds past StartTime
MaxElapsedObserver == 150
\* no pass of the loop of observe() starts MaxElapsedLoop seconds past
\* StartTime or later
MaxElapsedLoop == 32
\* no pass of the loop of automation/observe.py starts MaxElapsedAutomation
\* seconds past StartTime or later
MaxElapsedAutomation == 32
\* the resolution of time.time(): ticks in a second
TicksPerSecond == 2
\* the clock of the cycles that pass diagnostics to the detector runs
\* MaxElapsedPipeline seconds past StartTime
MaxElapsedPipeline == 90
\* the clock of the detector given two networks' snapshots runs
\* MaxElapsedNetworks seconds past StartTime
MaxElapsedNetworks == 150

Networks == {"net-001", "net-002"}

\* daemon/orchestrator.py line 56, the default of the parameter interval of
\* observe()
DEFAULT_INTERVAL == 30

None == "None"
NULL == -1

-----------------------------------------------------------------------------
(* tracking/state/network_state.py, tracking/state/transitions.py *)

NetworkState == {"UP", "DEGRADED", "DOWN", "RECOVERING"}

VALID_TRANSITIONS_NoShortcut ==
    [s \in NetworkState |->
        CASE s = "UP"         -> {"DEGRADED", "DOWN"}
          [] s = "DEGRADED"   -> {"UP", "DOWN"}
          [] s = "DOWN"       -> {"RECOVERING"}
          [] s = "RECOVERING" -> {"UP", "DEGRADED"}]

VALID_TRANSITIONS_DownToDegraded ==
    [s \in NetworkState |->
        CASE s = "UP"         -> {"DEGRADED", "DOWN"}
          [] s = "DEGRADED"   -> {"UP", "DOWN"}
          [] s = "DOWN"       -> {"RECOVERING", "UP", "DEGRADED"}
          [] s = "RECOVERING" -> {"UP", "DEGRADED"}]

VALID_TRANSITIONS ==
    [s \in NetworkState |->
        CASE s = "UP"         -> {"DEGRADED", "DOWN"}
          [] s = "DEGRADED"   -> {"UP", "DOWN"}
          [] s = "DOWN"       -> {"RECOVERING", "UP"}
          [] s = "RECOVERING" -> {"UP", "DEGRADED"}]

is_valid_transition_AllowAll(current_state, new_state) == TRUE

is_valid_transition(current_state, new_state) ==
    IF current_state = new_state
    THEN TRUE
    ELSE new_state \in VALID_TRANSITIONS[current_state]

-----------------------------------------------------------------------------
(* storage/state_store.py *)

\* the row save_state inserts
StateRecord(network_id, st, downtime_seconds) ==
    [network_id |-> network_id, state |-> st, timestamp |-> now,
     downtime_seconds |-> downtime_seconds]

save_state_Dropped(table, network_id, st, downtime_seconds) == table

save_state_Overwrite(table, network_id, st, downtime_seconds) ==
    SelectSeq(table, LAMBDA r : r.network_id # network_id)
        \o <<StateRecord(network_id, st, downtime_seconds)>>

save_state(table, network_id, st, downtime_seconds) ==
    Append(table, StateRecord(network_id, st, downtime_seconds))

\* the rows of one network, in insertion order
RowsOf(table, network_id) ==
    SelectSeq(table, LAMBDA r : r.network_id = network_id)

get_latest_state_Unseen(table, network_id) == None

\* ORDER BY timestamp DESC LIMIT 1: rows are inserted with the clock's
\* value, which never decreases, so the latest row is the last inserted one
get_latest_state(table, network_id) ==
    LET rows == RowsOf(table, network_id)
    IN  IF Len(rows) = 0 THEN None ELSE rows[Len(rows)].state

get_state(table, network_id) == get_latest_state(table, network_id)

-----------------------------------------------------------------------------
(* tracking/state/emitter.py *)

NoEvent == [type |-> None, duration |-> NULL]

emit_EveryOutage(previous_state, new_state, downtime_seconds) ==
    IF previous_state = None
    THEN NoEvent
    ELSE IF new_state = "DOWN"
    THEN [type |-> "INTERNET_DOWN", duration |-> NULL]
    ELSE IF previous_state = "DOWN" /\ new_state = "UP"
    THEN [type |-> "NETWORK_RESTORED", duration |-> downtime_seconds]
    ELSE NoEvent

emit_NoDuration(previous_state, new_state, downtime_seconds) ==
    IF previous_state = None
    THEN NoEvent
    ELSE IF previous_state = "UP" /\ new_state = "DOWN"
    THEN [type |-> "INTERNET_DOWN", duration |-> NULL]
    ELSE IF previous_state = "DOWN" /\ new_state = "UP"
    THEN [type |-> "NETWORK_RESTORED", duration |-> NULL]
    ELSE NoEvent

emit(previous_state, new_state, downtime_seconds) ==
    IF previous_state = None
    THEN NoEvent
    ELSE IF previous_state = "UP" /\ new_state = "DOWN"
    THEN [type |-> "INTERNET_DOWN", duration |-> NULL]
    ELSE IF previous_state = "DOWN" /\ new_state = "UP"
    THEN [type |-> "NETWORK_RESTORED", duration |-> downtime_seconds]
    ELSE NoEvent

-----------------------------------------------------------------------------
(* tracking/state/engine.py *)

LoadPreviousState_CacheOnly(network_id) == _states[network_id]

\* lines 105-113: the cache, then the database
LoadPreviousState(network_id) ==
    IF _states[network_id] # None
    THEN _states[network_id]
    ELSE get_state(network_states, network_id)

DowntimeOf_AnyRecovery(network_id, previous_state, new_state) ==
    IF new_state = "UP" /\ _down_since[network_id] # NULL
    THEN now - _down_since[network_id]
    ELSE NULL

\* lines 149-156: downtime of a DOWN -> UP transition
DowntimeOf(network_id, previous_state, new_state) ==
    IF previous_state = "DOWN" /\ new_state = "UP"
       /\ _down_since[network_id] # NULL
    THEN now - _down_since[network_id]
    ELSE NULL

\* lines 151 and 161-162: the down-since tracker after an accepted update
DownSinceAfter(network_id, previous_state, new_state) ==
    IF new_state = "DOWN"
    THEN now
    ELSE IF previous_state = "DOWN" /\ new_state = "UP"
    THEN NULL
    ELSE _down_since[network_id]

\* lines 108-113: the cache after the previous state has been loaded
CacheAfterRead(network_id) ==
    IF _states[network_id] = None
       /\ get_state(network_states, network_id) # None
    THEN [_states EXCEPT
             ![network_id] = get_state(network_states, network_id)]
    ELSE _states

\* the events returned so far, with the event of one more call
Emitted(network_id, event) ==
    IF event = NoEvent
    THEN engine_events
    ELSE Append(engine_events,
                [network_id |-> network_id, type |-> event.type])

\* lines 119-187: update_state from the point where previous_state has
\* been loaded and the cache is cache
update_state_write(network_id, new_state, previous_state, cache) ==
    IF previous_state = None
    THEN \* first time state assignment
         /\ _states' = [cache EXCEPT ![network_id] = new_state]
         /\ network_states' =
                save_state(network_states, network_id, new_state, NULL)
         /\ _down_since' =
                IF new_state = "DOWN"
                THEN [_down_since EXCEPT ![network_id] = now]
                ELSE _down_since
         /\ result' = [transitioned |-> TRUE, previous_state |-> None,
                       new_state |-> new_state,
                       downtime_seconds |-> NULL, event |-> NoEvent]
         /\ engine_events' = engine_events
    ELSE IF ~is_valid_transition(previous_state, new_state)
    THEN \* rejected; the state read from the database stays cached
         /\ _states' = cache
         /\ UNCHANGED <<network_states, _down_since, engine_events>>
         /\ result' = [transitioned |-> FALSE,
                       previous_state |-> previous_state,
                       new_state |-> previous_state,
                       downtime_seconds |-> NULL, event |-> NoEvent]
    ELSE LET downtime_seconds ==
                 DowntimeOf(network_id, previous_state, new_state)
             event == emit(previous_state, new_state, downtime_seconds)
         IN  /\ _down_since' =
                    [_down_since EXCEPT ![network_id] =
                        DownSinceAfter(network_id, previous_state,
                                       new_state)]
             /\ _states' = [cache EXCEPT ![network_id] = new_state]
             /\ network_states' =
                    save_state(network_states, network_id, new_state,
                               downtime_seconds)
             /\ result' = [transitioned |-> TRUE,
                           previous_state |-> previous_state,
                           new_state |-> new_state,
                           downtime_seconds |-> downtime_seconds,
                           event |-> event]
             /\ engine_events' = Emitted(network_id, event)

\* one call of update_state, made while no other call is in progress
update_state(network_id, new_state) ==
    /\ Len(network_states) < MaxHistory
    /\ call' = [op |-> "update_state", network_id |-> network_id,
                new_state |-> new_state,
                cached |-> _states[network_id] # None]
    /\ update_state_write(network_id, new_state,
                          LoadPreviousState(network_id),
                          CacheAfterRead(network_id))
    /\ UNCHANGED <<now, callers, overlapped, detectorVars, observerVars>>

\* a new process: NetworkStateEngine() starts with empty caches, the
\* database is kept
Restart ==
    /\ _states' = [n \in Networks |-> None]
    /\ _down_since' = [n \in Networks |-> NULL]
    /\ call' = [op |-> "restart", network_id |-> None, new_state |-> None,
                cached |-> FALSE]
    /\ UNCHANGED <<network_states, now, result, engine_events, callers,
                   overlapped, detectorVars, observerVars>>

\* one second passes
Tick ==
    /\ now < MaxTime
    /\ now' = now + 1
    /\ call' = [op |-> "tick", network_id |-> None, new_state |-> None,
                cached |-> FALSE]
    /\ UNCHANGED <<engineVars, detectorVars, observerVars>>

\* the callers of update_state; a caller that is in no call
Callers == {"caller-1", "caller-2"}
NoCaller == [network_id |-> None, new_state |-> None, previous_state |-> None]

NoResult == [transitioned |-> FALSE, previous_state |-> None,
             new_state |-> None, downtime_seconds |-> NULL,
             event |-> NoEvent]

\* lines 105-113 of a call made while other calls may be in progress: the
\* previous state is loaded and the state read from the database is cached
BeginUpdate(caller, network_id, new_state) ==
    /\ callers[caller] = NoCaller
    /\ Len(network_states) < MaxHistory
    /\ callers' = [callers EXCEPT ![caller] =
                      [network_id |-> network_id, new_state |-> new_state,
                       previous_state |-> LoadPreviousState(network_id)]]
    /\ _states' = CacheAfterRead(network_id)
    /\ overlapped' =
           [overlapped EXCEPT ![network_id] =
               @ \/ \E other \in Callers \ {caller} :
                        callers[other].network_id = network_id]
    /\ call' = [op |-> "begin", network_id |-> network_id,
                new_state |-> new_state,
                cached |-> _states[network_id] # None]
    /\ UNCHANGED <<_down_since, network_states, result, engine_events, now,
                   detectorVars, observerVars>>

\* lines 119-187 of that call, with the previous state it loaded
EndUpdate(caller) ==
    /\ callers[caller] # NoCaller
    /\ Len(network_states) < MaxHistory
    /\ update_state_write(callers[caller].network_id,
                          callers[caller].new_state,
                          callers[caller].previous_state, _states)
    /\ callers' = [callers EXCEPT ![caller] = NoCaller]
    /\ call' = [op |-> "end", network_id |-> callers[caller].network_id,
                new_state |-> callers[caller].new_state, cached |-> TRUE]
    /\ UNCHANGED <<overlapped, now, detectorVars, observerVars>>

InitEngine ==
    /\ _states = [n \in Networks |-> None]
    /\ _down_since = [n \in Networks |-> NULL]
    /\ network_states = <<>>
    /\ result = NoResult
    /\ engine_events = <<>>
    /\ callers = [c \in Callers |-> NoCaller]
    /\ overlapped = [n \in Networks |-> FALSE]

InitDetector ==
    /\ degraded_count = 0
    /\ healthy_count = 0
    /\ last_status_change_time = 0
    /\ state = [network_id |-> None, verdict |-> None, online |-> None]
    /\ events = <<>>
    /\ log = <<>>
    /\ status_changes = <<>>
    /\ solo = [degraded_count |-> 0, healthy_count |-> 0,
               last_status_change_time |-> 0,
               state |-> [network_id |-> None, verdict |-> None,
                          online |-> None],
               events |-> <<>>, cooled |-> FALSE]

-----------------------------------------------------------------------------
(* tracking/event_types.py, tracking/category.py, tracking/severity.py,
   tracking/event_factory.py *)

EventType ==
    {"INTERNET_DOWN", "HIGH_LATENCY", "PACKET_LOSS_SPIKE", "NETWORK_SWITCH",
     "ROUTER_UNREACHABLE", "WEBSITE_UNREACHABLE", "DNS_FAILURE",
     "NETWORK_RESTORED", "NETWORK_STATUS_CHANGE"}

is_valid_event_type(value) == value \in EventType

Category ==
    {"CONNECTIVITY", "PERFORMANCE", "INFRASTRUCTURE", "APPLICATION",
     "SECURITY"}

is_valid_category(value) == value \in Category

Severity == {"INFO", "LOW", "MEDIUM", "HIGH", "CRITICAL", "WARNING"}

is_valid_severity(value) == value \in Severity

EVENT_DEFINITIONS ==
    [t \in {"INTERNET_DOWN", "NETWORK_RESTORED", "NETWORK_SWITCH",
            "NETWORK_STATUS_CHANGE"} |->
        CASE t = "INTERNET_DOWN" ->
                 [category |-> "CONNECTIVITY", severity |-> "CRITICAL",
                  summary |-> "Internet connection lost",
                  verdict |-> "Network unreachable", resolved |-> FALSE]
          [] t = "NETWORK_RESTORED" ->
                 [category |-> "CONNECTIVITY", severity |-> "INFO",
                  summary |-> "Internet connection restored",
                  verdict |-> "Connectivity recovered", resolved |-> TRUE]
          [] t = "NETWORK_SWITCH" ->
                 [category |-> "CONNECTIVITY", severity |-> "INFO",
                  summary |-> "Network switched",
                  verdict |-> "Network changed", resolved |-> FALSE]
          [] t = "NETWORK_STATUS_CHANGE" ->
                 [category |-> "PERFORMANCE", severity |-> "WARNING",
                  summary |-> "Network status changed",
                  verdict |-> "Network condition changed",
                  resolved |-> FALSE]]

\* Python values passed for device_id, network_id and description: a str
\* (its characters), None, or an int
Whitespace == {" ", "\t"}
MaxText == 2
Texts == UNION {[1..n -> Whitespace \cup {"a"}] : n \in 0..MaxText}
FieldValues ==
    [type : {"str"}, text : Texts, number : {0}]
    \cup [type : {"NoneType"}, text : {<<>>}, number : {0}]
    \cup [type : {"int"}, text : {<<>>}, number : {0, 42}]

\* bool(value)
truthy(value) ==
    CASE value.type = "str" -> value.text # <<>>
      [] value.type = "int" -> value.number # 0
      [] OTHER -> FALSE

\* isinstance(value, str)
is_str(value) == value.type = "str"

strip_Identity(text) == text

\* str.strip(): leading and trailing whitespace removed
RECURSIVE strip(_)
strip(text) ==
    IF text = <<>> THEN text
    ELSE IF Head(text) \in Whitespace THEN strip(Tail(text))
    ELSE IF text[Len(text)] \in Whitespace
    THEN strip(SubSeq(text, 1, Len(text) - 1))
    ELSE text

\* line 287
InvalidField(value) ==
    ~truthy(value) \/ ~is_str(value) \/ strip(value.text) = <<>>

NoText == [type |-> "NoneType", text |-> <<>>, number |-> 0]

NoCreatedEvent ==
    [type |-> None, category |-> None, severity |-> None,
     device_id |-> NoText, network_id |-> NoText, verdict |-> None,
     summary |-> None, description |-> NoText, resolved |-> FALSE]

\* EventFactory.create_event: the event dictionary, or EventValidationError
create_event(event_type, device_id, network_id, description) ==
    IF ~is_valid_event_type(event_type)
    THEN [raised |-> TRUE, value |-> NoCreatedEvent]
    ELSE IF event_type \notin DOMAIN event_definitions
    THEN [raised |-> TRUE, value |-> NoCreatedEvent]
    ELSE LET definition == event_definitions[event_type]
         IN  IF ~is_valid_category(definition.category)
             THEN [raised |-> TRUE, value |-> NoCreatedEvent]
             ELSE IF ~is_valid_severity(definition.severity)
             THEN [raised |-> TRUE, value |-> NoCreatedEvent]
             ELSE IF \E value \in {device_id, network_id, description} :
                         InvalidField(value)
             THEN [raised |-> TRUE, value |-> NoCreatedEvent]
             ELSE [raised |-> FALSE,
                   value |-> [type |-> event_type,
                              category |-> definition.category,
                              severity |-> definition.severity,
                              device_id |-> device_id,
                              network_id |-> network_id,
                              verdict |-> definition.verdict,
                              summary |-> definition.summary,
                              description |-> description,
                              resolved |-> definition.resolved]]

\* no create_event call has been made
NoCreation ==
    [event_type |-> None, device_id |-> NoText, network_id |-> NoText,
     description |-> NoText,
     outcome |-> [raised |-> TRUE, value |-> NoCreatedEvent]]

-----------------------------------------------------------------------------
(* results of calls, initial values of the observer *)

\* the result dictionary of run_diagnostics
DiagnosticData(router, internet, dns, http, latency, loss, verdict) ==
    [router_reachable |-> router, internet_reachable |-> internet,
     dns_ok |-> dns, http_ok |-> http, avg_latency |-> latency,
     packet_loss |-> loss, verdict |-> verdict]

\* the outcome of a call: the value it returns, or an exception that
\* leaves it
NoData == DiagnosticData(FALSE, FALSE, FALSE, FALSE, NULL, NULL, None)
Returned(value) == [raised |-> FALSE, value |-> value]
Raised == [raised |-> TRUE, value |-> NoData]

\* no run_diagnostics call has been made
NoDiagnosis ==
    [probe |-> [router |-> FALSE, internet |-> FALSE, dns |-> FALSE,
                http |-> FALSE, latency |-> NULL, loss |-> NULL,
                ping_runs |-> TRUE],
     outcome |-> Raised, executed |-> <<>>]

InitObserver ==
    /\ diagnostic_runs = <<>>
    /\ profiles = <<>>
    /\ outage_started = NULL
    /\ diagnosis = NoDiagnosis
    /\ creation = NoCreation
    /\ event_store = <<>>
    /\ running = TRUE
    /\ observing = TRUE
    /\ event_definitions = EVENT_DEFINITIONS
    /\ pc = "while"
    /\ start_time = NULL
    /\ sleep_left = 0
    /\ subsecond = 0

Init ==
    /\ InitEngine
    /\ InitDetector
    /\ InitObserver
    /\ now = 0
    /\ call = [op |-> "init", network_id |-> None, new_state |-> None,
                cached |-> FALSE]

Next ==
    \/ \E network_id \in Networks, new_state \in NetworkState :
           update_state(network_id, new_state)
    \/ Restart
    \/ Tick

Spec == Init /\ [][Next]_vars

\* core/truth_engine.py, TruthEngine.evaluate: the state of its result
evaluate(diagnostic_data) ==
    IF ~diagnostic_data.router_reachable
    THEN "DOWN"
    ELSE IF ~diagnostic_data.internet_reachable
    THEN "DOWN"
    ELSE IF ~diagnostic_data.dns_ok \/ ~diagnostic_data.http_ok
    THEN "DEGRADED"
    ELSE "UP"

\* what a diagnostic run can hold for the four checks
CheckResults ==
    [router_reachable : BOOLEAN, internet_reachable : BOOLEAN,
     dns_ok : BOOLEAN, http_ok : BOOLEAN]

\* one cycle: the state TruthEngine.evaluate gives for the run of a network
\* is passed to update_state; turn is the parity of the number of cycles
ClassifierCycle(network_id, diagnostic_data) ==
    LET new_state == evaluate(diagnostic_data)
    IN  /\ Len(network_states) < MaxHistory
        /\ call' = [op |-> "cycle", network_id |-> network_id,
                    new_state |-> new_state,
                    cached |-> _states[network_id] # None,
                    turn |-> 1 - call.turn]
        /\ update_state_write(network_id, new_state,
                              LoadPreviousState(network_id),
                              CacheAfterRead(network_id))
        /\ UNCHANGED <<now, callers, overlapped, detectorVars,
                       observerVars>>

InitClassifier ==
    /\ InitEngine
    /\ InitDetector
    /\ InitObserver
    /\ now = 0
    /\ call = [op |-> "init", network_id |-> None, new_state |-> None,
               cached |-> FALSE, turn |-> 0]

NextClassifier ==
    \E network_id \in Networks, diagnostic_data \in CheckResults :
        ClassifierCycle(network_id, diagnostic_data)

\* the loop keeps running cycles
SpecClassifier ==
    InitClassifier /\ [][NextClassifier]_vars /\ WF_vars(NextClassifier)

\* one engine whose update_state is called by two callers at once
NextConcurrent ==
    \/ \E caller \in Callers, network_id \in Networks,
          new_state \in NetworkState :
           BeginUpdate(caller, network_id, new_state)
    \/ \E caller \in Callers : EndUpdate(caller)

SpecConcurrent == Init /\ [][NextConcurrent]_vars

-----------------------------------------------------------------------------
(* tracking/event_detector.py, tracking/event_state.py *)

\* the verdicts the detector distinguishes, and two it assigns to no class
Verdicts ==
    {"Healthy", "Degraded Internet", "ISP Failure", "Application Failure",
     "DNS Failure", "Local Network Failure"}

\* line 144
DegradedClass == {"Degraded Internet", "ISP Failure", "Application Failure"}

\* line 134
OnlineVerdicts == {"Healthy", "Degraded Internet"}

required_sustained_cycles == 2
status_change_cooldown == 120

\* seconds between the starts of two cycles: the default interval, or a
\* gap longer than the cooldown
CycleSteps == {30, 150}

\* a snapshot without an "online" key, as run_diagnostics returns it, or
\* with the key derived from the verdict, as EventState.update documents it
Snapshot(network_id, verdict, has_online) ==
    [network_id |-> network_id, verdict |-> verdict,
     online |-> IF has_online
                THEN (IF verdict \in OnlineVerdicts THEN "True" ELSE "False")
                ELSE None]

\* EventState.update: the snapshot's own values, snapshot.get("online")
EventState_update(snapshot) ==
    [network_id |-> snapshot.network_id, verdict |-> snapshot.verdict,
     online |-> snapshot.online]

CooldownElapsed_Always(current_time, last_time) == TRUE

\* lines 150 and 172
CooldownElapsed(current_time, last_time) ==
    current_time - last_time > status_change_cooldown

Sustained_Once(count) == count >= 1

\* lines 149 and 171
Sustained(count) == count >= required_sustained_cycles

StatusChange(kind) == [type |-> "NETWORK_STATUS_CHANGE", kind |-> kind]
InternetDown == [type |-> "INTERNET_DOWN", kind |-> "immediate"]
NetworkRestored == [type |-> "NETWORK_RESTORED", kind |-> "immediate"]

CountType(evs, type) ==
    Cardinality({i \in 1..Len(evs) : evs[i].type = type})

\* the last LogLen analyze calls are remembered
LogLen == 2

Remember(entry) ==
    IF Len(log) < LogLen
    THEN Append(log, entry)
    ELSE Append(Tail(log), entry)

\* the fields of the EventDetector object
Detector ==
    [degraded_count |-> degraded_count, healthy_count |-> healthy_count,
     last_status_change_time |-> last_status_change_time, state |-> state]

\* line 134: online
online_of(verdict) == verdict \in OnlineVerdicts

\* lines 141-144: the degradation branch is taken
DegradationBranch(previous_verdict, verdict) ==
    /\ previous_verdict # None
    /\ verdict # previous_verdict
    /\ verdict \in DegradedClass

\* lines 141 and 167: the recovery branch is taken
RecoveryBranch(previous_verdict, verdict) ==
    /\ previous_verdict # None
    /\ verdict # previous_verdict
    /\ verdict \notin DegradedClass
    /\ verdict = "Healthy"

\* EventDetector.analyze on a detector d at clock value current_time: the
\* fields of the detector after the call, the list it returns, and whether
\* the cooldown had elapsed when it was called
analyze_on(d, snapshot, current_time) ==
    LET verdict == snapshot.verdict
        online == online_of(verdict)
        cooled == CooldownElapsed(current_time, d.last_status_change_time)
        degrading == DegradationBranch(d.state.verdict, verdict)
        recovering == RecoveryBranch(d.state.verdict, verdict)
        degraded1 == IF degrading THEN d.degraded_count + 1
                     ELSE IF recovering THEN 0 ELSE d.degraded_count
        healthy1 == IF degrading THEN 0
                    ELSE IF recovering THEN d.healthy_count + 1
                    ELSE d.healthy_count
        alert_degraded == degrading /\ Sustained(degraded1) /\ cooled
        alert_recovered == recovering /\ Sustained(healthy1) /\ cooled
        lost == d.state.online = "True" /\ ~online
        restored == d.state.online = "False" /\ online
    IN  [degraded_count |-> IF alert_degraded THEN 0 ELSE degraded1,
         healthy_count |-> IF alert_recovered THEN 0 ELSE healthy1,
         last_status_change_time |->
             IF alert_degraded \/ alert_recovered
             THEN current_time
             ELSE d.last_status_change_time,
         state |-> EventState_update(snapshot),
         events |->
             (IF alert_degraded THEN <<StatusChange("degraded")>> ELSE <<>>)
             \o (IF alert_recovered THEN <<StatusChange("recovered")>>
                 ELSE <<>>)
             \o (IF lost THEN <<InternetDown>> ELSE <<>>)
             \o (IF restored THEN <<NetworkRestored>> ELSE <<>>),
         cooled |-> cooled]

\* EventDetector.analyze on the detector's variables; current_time is the
\* clock's value
analyze(snapshot) ==
    LET after == analyze_on(Detector, snapshot, now)
        emitted == CountType(after.events, "NETWORK_STATUS_CHANGE")
    IN  /\ degraded_count' = after.degraded_count
        /\ healthy_count' = after.healthy_count
        /\ last_status_change_time' = after.last_status_change_time
        /\ events' = after.events
        /\ state' = after.state
        /\ status_changes' =
               IF emitted > 0
               THEN Append(status_changes, now)
               ELSE status_changes
        /\ log' = Remember(
               [verdict |-> snapshot.verdict,
                previous_verdict |-> state.verdict,
                cooled |-> after.cooled,
                status_change |-> emitted,
                after_alert |->
                    CountType(events, "NETWORK_STATUS_CHANGE"),
                online |-> online_of(snapshot.verdict),
                degrading |->
                    DegradationBranch(state.verdict, snapshot.verdict),
                recovering |->
                    RecoveryBranch(state.verdict, snapshot.verdict)])

\* one monitoring cycle of a detector: analyze, then the wait until the
\* next cycle starts
DetectorCycle(snapshot, step) ==
    /\ now + step <= StartTime + MaxElapsed
    /\ analyze(snapshot)
    /\ now' = now + step
    /\ call' = [op |-> "analyze", network_id |-> snapshot.network_id,
                new_state |-> None, cached |-> FALSE]
    /\ UNCHANGED <<engineVars, observerVars, solo>>

InitDetectorSpec ==
    /\ InitEngine
    /\ InitDetector
    /\ InitObserver
    /\ now = StartTime
    /\ call = [op |-> "init", network_id |-> None, new_state |-> None,
               cached |-> FALSE]

NextDetector ==
    \E network_id \in {"net-001"}, verdict \in Verdicts,
       has_online \in BOOLEAN, step \in CycleSteps :
        DetectorCycle(Snapshot(network_id, verdict, has_online), step)

SpecDetector == InitDetectorSpec /\ [][NextDetector]_vars

\* the network whose snapshots the second detector is given
ReferenceNetwork == "net-001"

\* one monitoring cycle of the detector of observe(), which is given the
\* snapshots of every network the host joins; the second detector runs the
\* same analyze at the same clock value on the snapshots of
\* ReferenceNetwork and is not called in the other cycles
DetectorCycleNetworks(snapshot, step) ==
    /\ now + step <= StartTime + MaxElapsedNetworks
    /\ analyze(snapshot)
    /\ solo' = IF snapshot.network_id = ReferenceNetwork
               THEN analyze_on(solo, snapshot, now)
               ELSE solo
    /\ now' = now + step
    /\ call' = [op |-> "analyze", network_id |-> snapshot.network_id,
                new_state |-> None, cached |-> FALSE]
    /\ UNCHANGED <<engineVars, observerVars>>

NextDetectorNetworks ==
    \E network_id \in Networks, verdict \in Verdicts,
       has_online \in BOOLEAN, step \in CycleSteps :
        DetectorCycleNetworks(Snapshot(network_id, verdict, has_online), step)

SpecDetectorNetworks == InitDetectorSpec /\ [][NextDetectorNetworks]_vars

-----------------------------------------------------------------------------
(* core/fingerprint.py *)

Gateways == {"192.168.1.1"}

\* what collect_fingerprint can return: the gateway is None when the host
\* has no route
Fingerprints ==
    [default_gateway : Gateways \cup {None},
     mac_address : {"aa:bb:cc:dd:ee:ff"},
     local_ip : {"192.168.1.23"}]

\* every value a key of a fingerprint dictionary can hold: None, the
\* placeholder 'unknown', or a value read from the host
FingerprintCases ==
    [default_gateway : {None, "unknown", "192.168.1.1", "10.0.0.1"},
     mac_address : {None, "unknown", "aa:bb:cc:dd:ee:ff"},
     local_ip : {None, "192.168.1.23", "10.0.0.5"},
     public_ip : {None, "203.0.113.7"},
     hostname : {"host-a", "host-b"},
     system_platform : {"Linux-5.15.0-x86_64", "Windows-10"}]

StableComponents_GatewayFirst(fingerprint) ==
    IF fingerprint.default_gateway \notin {None, "unknown"}
    THEN <<fingerprint.default_gateway>>
    ELSE <<fingerprint.local_ip>>

\* lines 246-258: gateway and MAC without None and 'unknown', else local IP
StableComponents(fingerprint) ==
    LET known == SelectSeq(
            <<fingerprint.default_gateway, fingerprint.mac_address>>,
            LAMBDA c : c # None /\ c # "unknown")
    IN  IF known = <<>> THEN <<fingerprint.local_ip>> ELSE known

\* the component lists that occur, and the digest of each
Preimages ==
    << <<"192.168.1.1", "aa:bb:cc:dd:ee:ff">>, <<"192.168.1.23">>,
       <<"10.0.0.1", "aa:bb:cc:dd:ee:ff">>, <<"192.168.1.1">>,
       <<"10.0.0.1">>, <<"aa:bb:cc:dd:ee:ff">>, <<"10.0.0.5">>,
       <<"None">> >>

HexDigests ==
    <<"net-001", "net-002", "net-003", "net-004", "net-005", "net-006",
      "net-007", "net-008">>

\* sha256(raw).hexdigest()[:16], as an injective naming of the component
\* lists that occur
sha256_16(components) ==
    HexDigests[CHOOSE i \in DOMAIN Preimages : Preimages[i] = components]

generate_network_id(fingerprint) == sha256_16(StableComponents(fingerprint))

-----------------------------------------------------------------------------
(* diagnostics/base.py *)

Latencies == {NULL, 15, 200}
Losses == {NULL, 0, 20}

\* the outcome each probe has when it is run; ping_runs is whether the
\* ping command can be executed on the host (subprocess.run raises
\* otherwise)
ProbeOutcomes ==
    [router : BOOLEAN, internet : BOOLEAN, dns : BOOLEAN, http : BOOLEAN,
     latency : Latencies, loss : Losses, ping_runs : BOOLEAN]

\* quality samples around the thresholds of the quality verdict
LatencySamples == {NULL, 15, 100, 199, 200}
LossSamples == {NULL, 0, 10, 19, 20}

DiagnosticCases ==
    [router : BOOLEAN, internet : BOOLEAN, dns : BOOLEAN, http : BOOLEAN,
     latency : LatencySamples, loss : LossSamples, ping_runs : BOOLEAN]

QualityVerdict_Strict(latency, loss) ==
    IF latency # NULL \/ loss # NULL
    THEN IF loss # NULL /\ loss > 20 THEN "Unstable Connection"
         ELSE IF latency # NULL /\ latency > 200 THEN "Slow Connection"
         ELSE IF (loss # NULL /\ loss > 10) \/ (latency # NULL /\ latency > 100)
              THEN "Degraded Performance"
         ELSE "Connected"
    ELSE "Connected"

\* lines 426-443
QualityVerdict(latency, loss) ==
    IF latency # NULL \/ loss # NULL
    THEN IF loss # NULL /\ loss >= 20 THEN "Unstable Connection"
         ELSE IF latency # NULL /\ latency >= 200 THEN "Slow Connection"
         ELSE IF (loss # NULL /\ loss >= 10) \/ (latency # NULL /\ latency >= 100)
              THEN "Degraded Performance"
         ELSE "Connected"
    ELSE "Connected"

ProbesExecuted_All(probe) ==
    <<"router", "internet", "dns", "http", "quality">>

\* the probes run_diagnostics calls, in order: can_ping(router_ip),
\* can_ping(internet_ip), can_resolve_dns, can_open_website,
\* measure_latency_and_loss; a level is reached when the one before it
\* succeeded
ProbesExecuted(probe) ==
    IF ~probe.ping_runs \/ ~probe.router THEN <<"router">>
    ELSE IF ~probe.internet THEN <<"router", "internet">>
    ELSE IF ~probe.dns THEN <<"router", "internet", "dns">>
    ELSE IF ~probe.http THEN <<"router", "internet", "dns", "http">>
    ELSE <<"router", "internet", "dns", "http", "quality">>

\* run_diagnostics with a router IP; verdicts without their emoji prefix.
\* can_ping and measure_latency_and_loss call subprocess.run outside any
\* try block, so the first ping raises when the command cannot be executed
run_diagnostics(probe) ==
    IF ~probe.ping_runs
    THEN Raised
    ELSE IF ~probe.router
    THEN Returned(DiagnosticData(FALSE, FALSE, FALSE, FALSE, NULL, NULL,
                                 "No Network Connection"))
    ELSE IF ~probe.internet
    THEN Returned(DiagnosticData(TRUE, FALSE, FALSE, FALSE, NULL, NULL,
                                 "ISP Outage"))
    ELSE IF ~probe.dns
    THEN Returned(DiagnosticData(TRUE, TRUE, FALSE, FALSE, NULL, NULL,
                                 "DNS Resolution Failed"))
    ELSE IF ~probe.http
    THEN Returned(DiagnosticData(TRUE, TRUE, TRUE, FALSE, NULL, NULL,
                                 "Web Access Issue"))
    ELSE Returned(DiagnosticData(TRUE, TRUE, TRUE, TRUE, probe.latency,
                                 probe.loss,
                                 QualityVerdict(probe.latency, probe.loss)))

\* one call run_diagnostics(router_ip, ..., return_result=True)
Diagnose(probe) ==
    /\ diagnosis' = [probe |-> probe, outcome |-> run_diagnostics(probe),
                     executed |-> ProbesExecuted(probe)]
    /\ call' = [op |-> "run_diagnostics"]
    /\ UNCHANGED <<engineVars, detectorVars, diagnostic_runs, profiles,
                   outage_started, creation, event_store, running, observing,
                   event_definitions, loopVars, now>>

InitDiagnostics ==
    /\ InitEngine
    /\ InitDetector
    /\ InitObserver
    /\ now = StartTime
    /\ call = [op |-> "init"]

NextDiagnostics == \E probe \in DiagnosticCases : Diagnose(probe)

SpecDiagnostics == InitDiagnostics /\ [][NextDiagnostics]_vars

-----------------------------------------------------------------------------
(* daemon/orchestrator.py lines 184-207: the result of run_diagnostics is
   the snapshot EventDetector.analyze is called with *)

\* one probe outcome for each result run_diagnostics can have
PipelineCases ==
    {CHOOSE p \in DiagnosticCases : run_diagnostics(p) = o :
        o \in {run_diagnostics(q) : q \in DiagnosticCases}}

\* one cycle of a network with a router IP: run_diagnostics, and analyze on
\* its result when it returns one
PipelineCycle(probe) ==
    LET outcome == run_diagnostics(probe)
        snapshot == [network_id |-> "net-001",
                     verdict |-> outcome.value.verdict, online |-> None]
    IN  /\ now + DEFAULT_INTERVAL <= StartTime + MaxElapsedPipeline
        /\ diagnosis' = [probe |-> probe, outcome |-> outcome,
                         executed |-> ProbesExecuted(probe)]
        /\ IF outcome.raised
           THEN UNCHANGED detectorVars
           ELSE analyze(snapshot) /\ UNCHANGED solo
        /\ now' = now + DEFAULT_INTERVAL
        /\ call' = [op |-> "cycle", raised |-> outcome.raised]
        /\ UNCHANGED <<engineVars, diagnostic_runs, profiles,
                       outage_started, creation, event_store, running,
                       observing, event_definitions, loopVars>>

InitPipeline ==
    /\ InitEngine
    /\ InitDetector
    /\ InitObserver
    /\ now = StartTime
    /\ call = [op |-> "init", raised |-> FALSE]

NextPipeline == \E probe \in PipelineCases : PipelineCycle(probe)

SpecPipeline == InitPipeline /\ [][NextPipeline]_vars

-----------------------------------------------------------------------------
(* calls of EventFactory.create_event *)

\* the event types callers pass: the registered ones, an EventType member
\* without a definition, and a string that is no EventType
EventTypeArguments ==
    DOMAIN EVENT_DEFINITIONS \cup {"HIGH_LATENCY", "DISK_FULL"}

\* the arguments of a call that has not been made yet
Arguments(event_type, device_id, network_id, description) ==
    [event_type |-> event_type, device_id |-> device_id,
     network_id |-> network_id, description |-> description,
     outcome |-> [raised |-> TRUE, value |-> NoCreatedEvent]]

\* a caller is about to call create_event with any of the arguments
InitEvents ==
    /\ InitEngine
    /\ InitDetector
    /\ diagnostic_runs = <<>>
    /\ profiles = <<>>
    /\ outage_started = NULL
    /\ diagnosis = NoDiagnosis
    /\ event_store = <<>>
    /\ running = TRUE
    /\ observing = TRUE
    /\ event_definitions = EVENT_DEFINITIONS
    /\ pc = "while"
    /\ start_time = NULL
    /\ sleep_left = 0
    /\ subsecond = 0
    /\ now = StartTime
    /\ call = [op |-> "init"]
    /\ \E event_type \in EventTypeArguments :
          \E device_id \in FieldValues, network_id \in FieldValues,
             description \in FieldValues :
              creation = Arguments(event_type, device_id, network_id,
                                   description)

\* the call EventFactory.create_event(...) on those arguments
CreateEvent ==
    /\ call.op = "init"
    /\ creation' = [creation EXCEPT !.outcome =
                        create_event(creation.event_type, creation.device_id,
                                     creation.network_id,
                                     creation.description)]
    /\ call' = [op |-> "create_event"]
    /\ UNCHANGED <<engineVars, detectorVars, diagnostic_runs, profiles,
                   outage_started, diagnosis, event_store, running, observing,
                   event_definitions, loopVars, now>>

NextEvents == CreateEvent

SpecEvents == InitEvents /\ [][NextEvents]_vars

-----------------------------------------------------------------------------
(* tracking/event_factory.py: add_event_definition, and create_event on the
   registry it extends *)

\* line 354
RequiredKeys == {"category", "severity", "summary", "verdict", "resolved"}

\* the definition dictionaries callers pass: keys is the set of keys the
\* dictionary has
DefinitionArguments ==
    [keys : {RequiredKeys, RequiredKeys \ {"verdict"}},
     category : {"PERFORMANCE", "SECURITY", "BOGUS"},
     severity : {"HIGH", "BOGUS"},
     summary : {"Custom event"}, verdict : {"Custom verdict"},
     resolved : {TRUE}]

\* the event types callers register: one that has a definition, an
\* EventType member without one, and a string that is no EventType
RegisteredTypeArguments == {"NETWORK_SWITCH", "HIGH_LATENCY", "DISK_FULL"}

\* the values create_event reads from a stored definition
Metadata(definition) ==
    [category |-> definition.category, severity |-> definition.severity,
     summary |-> definition.summary, verdict |-> definition.verdict,
     resolved |-> definition.resolved]

\* add_event_definition: ValueError, or the registry with the definition
\* stored under event_type
add_event_definition(event_type, definition) ==
    IF RequiredKeys \ definition.keys # {}
    THEN [raised |-> TRUE, value |-> event_definitions]
    ELSE IF ~is_valid_category(definition.category)
    THEN [raised |-> TRUE, value |-> event_definitions]
    ELSE IF ~is_valid_severity(definition.severity)
    THEN [raised |-> TRUE, value |-> event_definitions]
    ELSE [raised |-> FALSE,
          value |-> [t \in DOMAIN event_definitions \cup {event_type} |->
                        IF t = event_type
                        THEN Metadata(definition)
                        ELSE event_definitions[t]]]

NoDefinition ==
    [keys |-> {}, category |-> None, severity |-> None, summary |-> None,
     verdict |-> None, resolved |-> FALSE]

\* the call add_event_definition(event_type, definition)
AddEventDefinition(event_type, definition) ==
    LET outcome == add_event_definition(event_type, definition)
    IN  /\ event_definitions' = outcome.value
        /\ call' = [op |-> "add_event_definition", event_type |-> event_type,
                    definition |-> definition, raised |-> outcome.raised]
        /\ UNCHANGED <<engineVars, detectorVars, diagnostic_runs, profiles,
                       outage_started, diagnosis, creation, event_store,
                       running, observing, loopVars, now>>

\* single-character values for device_id, network_id and description
ShortFieldValues ==
    {value \in FieldValues : value.type = "str" /\ Len(value.text) = 1}

\* the call EventFactory.create_event(...) on the current registry
CreateRegisteredEvent(event_type, device_id, network_id, description) ==
    LET outcome == create_event(event_type, device_id, network_id,
                                description)
    IN  /\ creation' = [event_type |-> event_type, device_id |-> device_id,
                        network_id |-> network_id,
                        description |-> description, outcome |-> outcome]
        /\ call' = [op |-> "create_event", event_type |-> event_type,
                    definition |-> NoDefinition, raised |-> outcome.raised]
        /\ UNCHANGED <<engineVars, detectorVars, diagnostic_runs, profiles,
                       outage_started, diagnosis, event_store, running,
                       observing, event_definitions, loopVars, now>>

InitRegistry ==
    /\ InitEngine
    /\ InitDetector
    /\ InitObserver
    /\ now = StartTime
    /\ call = [op |-> "init", event_type |-> None,
               definition |-> NoDefinition, raised |-> FALSE]

NextRegistry ==
    \/ \E event_type \in RegisteredTypeArguments,
          definition \in DefinitionArguments :
           AddEventDefinition(event_type, definition)
    \/ \E event_type \in RegisteredTypeArguments,
          device_id \in ShortFieldValues, network_id \in ShortFieldValues,
          description \in ShortFieldValues :
           CreateRegisteredEvent(event_type, device_id, network_id,
                                 description)

SpecRegistry == InitRegistry /\ [][NextRegistry]_vars

-----------------------------------------------------------------------------
(* core/network_profile.py *)

HasProfile(network_id) ==
    \E i \in 1..Len(profiles) : profiles[i].network_id = network_id

\* NetworkProfileManager.get_or_create and save: an existing profile gets
\* last_seen = now; without a router IP no offline profile can match by its
\* notes, so a new profile is created
get_or_create(network_id, fingerprint, is_offline) ==
    IF HasProfile(network_id)
    THEN [i \in 1..Len(profiles) |->
             IF profiles[i].network_id = network_id
             THEN [profiles[i] EXCEPT !.last_seen = now]
             ELSE profiles[i]]
    ELSE Append(profiles,
                [network_id |-> network_id, first_seen |-> now,
                 last_seen |-> now,
                 is_offline_network |->
                     (is_offline \/ fingerprint.default_gateway = None)])

-----------------------------------------------------------------------------
(* storage/db.py, daemon/orchestrator.py *)

\* the row save_run inserts
RunRecord(data, network_id) ==
    [timestamp |-> now, network_id |-> network_id,
     router_reachable |-> data.router_reachable,
     internet_reachable |-> data.internet_reachable,
     dns_ok |-> data.dns_ok, http_ok |-> data.http_ok,
     avg_latency |-> data.avg_latency, packet_loss |-> data.packet_loss,
     verdict |-> data.verdict]

save_run(table, data, network_id) == Append(table, RunRecord(data, network_id))

\* where an exception is raised inside a cycle by a call other than
\* run_diagnostics: collect_fingerprint, the save() of get_or_create,
\* save_run, or EventStore.save_event for the first event
CycleFaults == {"none", "fingerprint", "profile", "save_run", "save_event"}

LoopContinues_Propagates(raised) == ~raised

\* lines 161 and 224-225: the body of the cycle is inside try / except
\* Exception, which logs the exception, so the loop goes on to the interval
\* sleep whether or not the cycle raised
LoopContinues(raised) == TRUE

\* lines 164-170: the network id a cycle works with (router_ip_override
\* unset)
assigned_network_id(fingerprint) ==
    LET router_ip == fingerprint.default_gateway
        is_offline == router_ip = None
    IN  IF is_offline
        THEN "offline-state"
        ELSE generate_network_id(fingerprint)

\* lines 161-225: the try block of one pass of the while loop of observe()
\* (router_ip_override unset)
TryBlock(fingerprint, probe, fault) ==
    LET router_ip == fingerprint.default_gateway
        is_offline == router_ip = None
        network_id == assigned_network_id(fingerprint)
        outcome == run_diagnostics(probe)
        data == outcome.value
        snapshot == [network_id |-> network_id, verdict |-> data.verdict,
                     online |-> None]
        detected == analyze_on(Detector, snapshot, now).events
        stopped_early == \/ fault \in {"fingerprint", "profile"}
                         \/ is_offline
                         \/ outcome.raised
                         \/ fault = "save_run"
        raised == \/ fault \in {"fingerprint", "profile"}
                  \/ /\ ~is_offline
                     /\ \/ outcome.raised
                        \/ fault = "save_run"
                        \/ fault = "save_event" /\ detected # <<>>
    IN  /\ profiles' = IF fault = "fingerprint"
                       THEN profiles
                       ELSE get_or_create(network_id, fingerprint, is_offline)
        /\ outage_started' =
               IF fault \in {"fingerprint", "profile"} THEN outage_started
               ELSE IF ~is_offline THEN NULL
               ELSE IF outage_started = NULL THEN now
               ELSE outage_started
        /\ IF stopped_early
           THEN UNCHANGED <<diagnostic_runs, detectorVars, event_store>>
           ELSE /\ diagnostic_runs' =
                       save_run(diagnostic_runs, data, network_id)
                /\ analyze(snapshot)
                /\ event_store' = IF fault = "save_event"
                                  THEN event_store
                                  ELSE event_store \o events'
                /\ UNCHANGED solo
        /\ call' = [op |-> "observe", network_id |-> network_id,
                    offline |-> is_offline, time |-> now,
                    raised |-> raised, after_raised |-> call.raised]

\* one pass of the while loop of observe(), with the interval sleep that
\* follows it
ObserveCycle(fingerprint, probe, step, fault) ==
    /\ observing
    /\ running
    /\ now + step <= StartTime + MaxElapsedObserver
    /\ fingerprint.default_gateway = None \/ Len(diagnostic_runs) < MaxRuns
    /\ TryBlock(fingerprint, probe, fault)
    /\ observing' = LoopContinues(call'.raised)
    /\ now' = now + step
    /\ UNCHANGED <<engineVars, diagnosis, creation, running,
                   event_definitions, loopVars>>

\* shutdown_handler: SIGINT or SIGTERM, delivered during the interval sleep
Shutdown ==
    /\ observing
    /\ running
    /\ running' = FALSE
    /\ call' = [op |-> "shutdown", network_id |-> None, offline |-> FALSE,
                time |-> now, raised |-> FALSE, after_raised |-> FALSE]
    /\ UNCHANGED <<engineVars, detectorVars, diagnostic_runs, profiles,
                   outage_started, diagnosis, creation, event_store,
                   observing, event_definitions, loopVars, now>>

\* line 158: the while condition is false and observe() returns
ObserveReturns ==
    /\ observing
    /\ pc = "while"
    /\ ~running
    /\ observing' = FALSE
    /\ call' = [op |-> "return", network_id |-> None, offline |-> FALSE,
                time |-> now, raised |-> FALSE, after_raised |-> FALSE]
    /\ UNCHANGED <<engineVars, detectorVars, diagnostic_runs, profiles,
                   outage_started, diagnosis, creation, event_store,
                   running, event_definitions, loopVars, now>>

InitObserverSpec ==
    /\ InitEngine
    /\ InitDetector
    /\ InitObserver
    /\ now = StartTime
    /\ call = [op |-> "init", network_id |-> None, offline |-> FALSE,
               time |-> 0, raised |-> FALSE, after_raised |-> FALSE]

\* one probe outcome for each result run_diagnostics can have: a cycle
\* depends on the probes through that result only
ProbeCases ==
    {CHOOSE p \in ProbeOutcomes : run_diagnostics(p) = o :
        o \in {run_diagnostics(q) : q \in ProbeOutcomes}}

NextObserver ==
    \/ \E fingerprint \in Fingerprints, probe \in ProbeCases,
          step \in CycleSteps, fault \in CycleFaults :
           ObserveCycle(fingerprint, probe, step, fault)
    \/ Shutdown
    \/ ObserveReturns

SpecObserver == InitObserverSpec /\ [][NextObserver]_vars

-----------------------------------------------------------------------------
(* daemon/orchestrator.py: the loop of observe() step by step, with the
   wall clock in ticks *)

\* time.time(), in ticks
time_time == now * TicksPerSecond + subsecond

\* how long the try block of a pass takes, in ticks: less than a second,
\* two seconds, longer than the interval
CycleDurations == {1, 2 * TicksPerSecond, 31 * TicksPerSecond}

\* lines 231-232: elapsed and sleep_time, in ticks
sleep_time(elapsed) ==
    IF DEFAULT_INTERVAL * TicksPerSecond - elapsed > 0
    THEN DEFAULT_INTERVAL * TicksPerSecond - elapsed
    ELSE 0

\* int(sleep_time): the whole seconds of sleep_time
int(ticks) == ticks \div TicksPerSecond

SleepBreaks_Never(flag) == FALSE

\* lines 236-237: if not state.running: break
SleepBreaks(flag) == ~flag

\* lines 158-159: the while condition holds and a pass starts
CycleStarts ==
    /\ observing
    /\ pc = "while"
    /\ running
    /\ now < StartTime + MaxElapsedLoop
    /\ start_time' = time_time
    /\ pc' = "cycle"
    /\ UNCHANGED <<engineVars, detectorVars, diagnostic_runs, profiles,
                   outage_started, diagnosis, creation, event_store,
                   running, observing, event_definitions, sleep_left,
                   subsecond, now, call>>

\* lines 161-232: the try block, which takes duration ticks, then elapsed
\* and sleep_time
CycleRuns(fingerprint, probe, duration, fault) ==
    LET finished == time_time + duration
        elapsed == finished - start_time
    IN  /\ observing
        /\ pc = "cycle"
        /\ fingerprint.default_gateway = None
           \/ Len(diagnostic_runs) < MaxRuns
        /\ TryBlock(fingerprint, probe, fault)
        /\ observing' = LoopContinues(call'.raised)
        /\ now' = finished \div TicksPerSecond
        /\ subsecond' = finished % TicksPerSecond
        /\ sleep_left' = int(sleep_time(elapsed))
        /\ pc' = "sleep"
        /\ UNCHANGED <<engineVars, diagnosis, creation, running,
                       event_definitions, start_time>>

\* lines 235-237: the sleep loop is over, or is left because running is
\* false, or goes on to time.sleep(1)
SleepChecks ==
    /\ observing
    /\ pc = "sleep"
    /\ IF sleep_left = 0 \/ SleepBreaks(running)
       THEN pc' = "while" /\ sleep_left' = 0
       ELSE pc' = "sleeping" /\ sleep_left' = sleep_left
    /\ UNCHANGED <<engineVars, detectorVars, diagnostic_runs, profiles,
                   outage_started, diagnosis, creation, event_store,
                   running, observing, event_definitions, start_time,
                   subsecond, now, call>>

\* line 238: time.sleep(1) returns
Sleeps ==
    /\ observing
    /\ pc = "sleeping"
    /\ now' = now + 1
    /\ sleep_left' = sleep_left - 1
    /\ pc' = "sleep"
    /\ UNCHANGED <<engineVars, detectorVars, diagnostic_runs, profiles,
                   outage_started, diagnosis, creation, event_store,
                   running, observing, event_definitions, start_time,
                   subsecond, call>>

NextObserverLoop ==
    \/ CycleStarts
    \/ \E fingerprint \in Fingerprints, probe \in ProbeCases,
          duration \in CycleDurations, fault \in CycleFaults :
           CycleRuns(fingerprint, probe, duration, fault)
    \/ SleepChecks
    \/ Sleeps
    \/ Shutdown
    \/ ObserveReturns

SpecObserverLoop == InitObserverSpec /\ [][NextObserverLoop]_vars

\* the steps of the thread that runs observe() once a pass has started:
\* the try block ends, the loop conditions are evaluated, time.sleep(1)
\* returns, observe() returns
ObserveProgress ==
    \/ \E fingerprint \in Fingerprints, probe \in ProbeCases,
          duration \in CycleDurations, fault \in CycleFaults :
           CycleRuns(fingerprint, probe, duration, fault)
    \/ SleepChecks
    \/ Sleeps
    \/ ObserveReturns

-----------------------------------------------------------------------------
(* automation/observe.py: the loop of observe() step by step, with the wall
   clock in ticks.  device_id, init_db and the EventDetector are set up
   before the loop; init_db has succeeded. *)

\* line 22, the default of the parameter interval of observe()
AUTOMATION_DEFAULT_INTERVAL == 30

\* how the try block of a pass ends: at the continue of line 102 (no
\* router IP), at the continue of line 114 (run_diagnostics returned
\* nothing), at its last statement after save_run, analyze and the logging,
\* or in the except clause of lines 151-152
AutomationOutcomes == {"no_router", "no_result", "completed", "raised"}

\* lines 102 and 114: continue goes to the while condition of line 90;
\* the end of the try block and the except clause go on to line 155
AfterTry(outcome) ==
    IF outcome \in {"no_router", "no_result"} THEN "while" ELSE "sleep"

\* lines 155-156: elapsed and sleep_time, in ticks
automation_sleep_time(elapsed) ==
    IF AUTOMATION_DEFAULT_INTERVAL * TicksPerSecond - elapsed > 0
    THEN AUTOMATION_DEFAULT_INTERVAL * TicksPerSecond - elapsed
    ELSE 0

\* lines 90-91: the while condition holds and a pass starts
AutomationCycleStarts ==
    /\ observing
    /\ pc = "while"
    /\ running
    /\ now < StartTime + MaxElapsedAutomation
    /\ start_time' = time_time
    /\ pc' = "cycle"
    /\ UNCHANGED <<engineVars, detectorVars, diagnostic_runs, profiles,
                   outage_started, diagnosis, creation, event_store,
                   running, observing, event_definitions, sleep_left,
                   subsecond, now, call>>

\* lines 93-156: the try block, which takes duration ticks and ends with
\* outcome, then elapsed and sleep_time when the pass was not left by
\* continue; a completed pass has saved its run (line 125)
AutomationCycleRuns(outcome, duration) ==
    LET finished == time_time + duration
        elapsed == finished - start_time
    IN  /\ observing
        /\ pc = "cycle"
        /\ outcome = "completed" => Len(diagnostic_runs) < MaxRuns
        /\ now' = finished \div TicksPerSecond
        /\ subsecond' = finished % TicksPerSecond
        /\ diagnostic_runs' =
               IF outcome = "completed"
               THEN Append(diagnostic_runs,
                           [timestamp |-> finished \div TicksPerSecond])
               ELSE diagnostic_runs
        /\ pc' = AfterTry(outcome)
        /\ sleep_left' = IF AfterTry(outcome) = "sleep"
                         THEN automation_sleep_time(elapsed)
                         ELSE sleep_left
        /\ call' = [op |-> "cycle", outcome |-> outcome,
                    started |-> start_time, finished |-> finished]
        /\ UNCHANGED <<engineVars, detectorVars, profiles, outage_started,
                       diagnosis, creation, event_store, running,
                       observing, event_definitions, start_time>>

\* lines 158-160: the for loop over range(int(sleep_time)) is over, or is
\* left because running is false, or goes on to time.sleep(1); sleep_left
\* is the part of sleep_time not slept yet, in ticks
AutomationSleepChecks ==
    /\ observing
    /\ pc = "sleep"
    /\ pc' = IF int(sleep_left) = 0 \/ ~running
             THEN "remainder"
             ELSE "sleeping"
    /\ UNCHANGED <<engineVars, detectorVars, diagnostic_runs, profiles,
                   outage_started, diagnosis, creation, event_store,
                   running, observing, event_definitions, start_time,
                   sleep_left, subsecond, now, call>>

\* line 161: time.sleep(1) returns
AutomationSleeps ==
    /\ observing
    /\ pc = "sleeping"
    /\ now' = now + 1
    /\ sleep_left' = sleep_left - TicksPerSecond
    /\ pc' = "sleep"
    /\ UNCHANGED <<engineVars, detectorVars, diagnostic_runs, profiles,
                   outage_started, diagnosis, creation, event_store,
                   running, observing, event_definitions, start_time,
                   subsecond, call>>

\* lines 163-164: if state.running: time.sleep(sleep_time % 1)
AutomationSleepsRemainder ==
    LET woken == IF running
                 THEN time_time + (sleep_left % TicksPerSecond)
                 ELSE time_time
    IN  /\ observing
        /\ pc = "remainder"
        /\ now' = woken \div TicksPerSecond
        /\ subsecond' = woken % TicksPerSecond
        /\ sleep_left' = 0
        /\ pc' = "while"
        /\ UNCHANGED <<engineVars, detectorVars, diagnostic_runs, profiles,
                       outage_started, diagnosis, creation, event_store,
                       running, observing, event_definitions, start_time,
                       call>>

\* lines 58-60: shutdown_handler, on SIGINT or SIGTERM at any point of the
\* loop
AutomationShutdown ==
    /\ observing
    /\ running
    /\ running' = FALSE
    /\ UNCHANGED <<engineVars, detectorVars, diagnostic_runs, profiles,
                   outage_started, diagnosis, creation, event_store,
                   observing, event_definitions, loopVars, now, call>>

\* lines 90 and 166: the while condition is false and observe() returns
AutomationReturns ==
    /\ observing
    /\ pc = "while"
    /\ ~running
    /\ observing' = FALSE
    /\ UNCHANGED <<engineVars, detectorVars, diagnostic_runs, profiles,
                   outage_started, diagnosis, creation, event_store,
                   running, event_definitions, loopVars, now, call>>

InitAutomation ==
    /\ InitEngine
    /\ InitDetector
    /\ InitObserver
    /\ now = StartTime
    /\ call = [op |-> "init", outcome |-> None, started |-> NULL,
               finished |-> NULL]

NextAutomation ==
    \/ AutomationCycleStarts
    \/ \E outcome \in AutomationOutcomes, duration \in CycleDurations :
           AutomationCycleRuns(outcome, duration)
    \/ AutomationSleepChecks
    \/ AutomationSleeps
    \/ AutomationSleepsRemainder
    \/ AutomationShutdown
    \/ AutomationReturns

SpecAutomation == InitAutomation /\ [][NextAutomation]_vars

-----------------------------------------------------------------------------
(* the network ids of two fingerprints: generate_network_id, and the id
   observe() works with *)

NoIdentity == [generated |-> None, assigned |-> None]

identify(fingerprint) ==
    [generated |-> generate_network_id(fingerprint),
     assigned |-> assigned_network_id(fingerprint)]

\* two fingerprints are about to be identified
InitFingerprint ==
    /\ InitEngine
    /\ InitDetector
    /\ InitObserver
    /\ now = StartTime
    /\ \E fingerprint \in FingerprintCases, other \in FingerprintCases :
          call = [op |-> "init", fingerprint |-> fingerprint,
                  other |-> other, identity |-> NoIdentity,
                  other_identity |-> NoIdentity]

Identify ==
    /\ call.op = "init"
    /\ call' = [call EXCEPT !.op = "identify",
                            !.identity = identify(call.fingerprint),
                            !.other_identity = identify(call.other)]
    /\ UNCHANGED <<engineVars, detectorVars, observerVars, now>>

NextFingerprint == Identify

SpecFingerprint == InitFingerprint /\ [][NextFingerprint]_vars

-----------------------------------------------------------------------------
(* Properties of the state engine, checked under Spec *)

\* the eight valid transitions between distinct states
EightPairs ==
    {<<"UP", "DEGRADED">>, <<"UP", "DOWN">>,
     <<"DEGRADED", "UP">>, <<"DEGRADED", "DOWN">>,
     <<"DOWN", "RECOVERING">>, <<"DOWN", "UP">>,
     <<"RECOVERING", "UP">>, <<"RECOVERING", "DEGRADED">>}

\* the persisted rows of a network and the state of the latest one
History(network_id) ==
    SelectSeq(network_states, LAMBDA r : r.network_id = network_id)

LatestPersisted(network_id) ==
    IF Len(History(network_id)) = 0
    THEN None
    ELSE History(network_id)[Len(History(network_id))].state

\* the current state of a network: the cached one, else the persisted one
CurrentState(network_id) ==
    IF _states[network_id] # None
    THEN _states[network_id]
    ELSE LatestPersisted(network_id)

\* the step is the call update_state(id, to)
IsCall(id, to) ==
    /\ call'.op = "update_state"
    /\ call'.network_id = id
    /\ call'.new_state = to

RECURSIVE EnteredDownAt(_, _)
EnteredDownAt(rows, k) ==
    IF k > 1 /\ rows[k - 1].state = "DOWN"
    THEN EnteredDownAt(rows, k - 1)
    ELSE rows[k].timestamp

\* C2: an accepted DOWN -> UP update at t1 of a network that entered DOWN
\* at t0 reports downtime_seconds = t1 - t0, whatever number of
\* update_state(id, DOWN) calls were made in between (stated for the
\* updates that report a downtime).
C2_DowntimeSinceEnteredDown ==
    (/\ call.op = "update_state"
     /\ result.transitioned
     /\ result.previous_state = "DOWN"
     /\ result.new_state = "UP"
     /\ result.downtime_seconds # NULL)
    => LET rows == History(call.network_id)
       IN  result.downtime_seconds =
               rows[Len(rows)].timestamp - EnteredDownAt(rows, Len(rows) - 1)

\* C6: with no in-memory state but a persisted history, update_state
\* takes the latest persisted state as the previous state: previous_state
\* in the result is that state and the call is rejected exactly when the
\* pair is not a self-loop and not one of the eight valid pairs.
C6_PreviousStateFromHistory ==
    [][\A id \in Networks : \A to \in NetworkState :
          (/\ IsCall(id, to)
           /\ _states[id] = None
           /\ LatestPersisted(id) # None)
          => /\ result'.previous_state = LatestPersisted(id)
             /\ result'.transitioned =
                    (\/ LatestPersisted(id) = to
                     \/ <<LatestPersisted(id), to>> \in EightPairs)]_vars

C6_Witness ==
    /\ call.op = "update_state"
    /\ ~call.cached
    /\ result.previous_state = "DOWN"
    /\ call.new_state = "DEGRADED"
    /\ result.transitioned = FALSE

\* C7: when the latest persisted state is DOWN and the cache is empty
\* (restart during the outage), the next update_state(id, UP) reports a
\* non-null downtime_seconds and persists it on the recovery StateRecord.
C7_DowntimeAfterRestart ==
    (/\ call.op = "update_state"
     /\ ~call.cached
     /\ call.new_state = "UP"
     /\ result.previous_state = "DOWN")
    => /\ result.downtime_seconds # NULL
       /\ LET rows == History(call.network_id)
          IN  rows[Len(rows)].downtime_seconds # NULL

\* C10: the first update_state call for a network with neither cached
\* state nor persisted history is accepted for each of the four states:
\* transitioned = true, previous_state = None, no downtime, no event, the
\* state is cached and one row with it is appended to the history.
C10_FirstObservationAccepted ==
    [][\A id \in Networks : \A to \in NetworkState :
          (/\ IsCall(id, to)
           /\ _states[id] = None
           /\ LatestPersisted(id) = None)
          => /\ result' = [transitioned |-> TRUE, previous_state |-> None,
                           new_state |-> to, downtime_seconds |-> NULL,
                           event |-> NoEvent]
             /\ _states'[id] = to
             /\ Len(network_states') = Len(network_states) + 1
             /\ network_states'[Len(network_states')].network_id = id
             /\ network_states'[Len(network_states')].state = to
             /\ SubSeq(network_states', 1, Len(network_states))
                    = network_states]_vars

C10_Witness ==
    /\ call.op = "update_state"
    /\ result.transitioned
    /\ result.previous_state = None
    /\ result.new_state = "RECOVERING"
    /\ _states[call.network_id] = "RECOVERING"
    /\ LatestPersisted(call.network_id) = "RECOVERING"

\* C11: a non-null downtime_seconds appears only on a DOWN -> UP
\* transition: in the result of an update_state call only when the call
\* was accepted from DOWN to UP, and in the history only on an UP row that
\* directly follows a DOWN row of the same network; update_state(id, UP)
\* on a network that is already UP reports no downtime.
C11_DowntimeOnlyOnRecovery ==
    /\ result.downtime_seconds # NULL
       => /\ result.transitioned
          /\ result.previous_state = "DOWN"
          /\ result.new_state = "UP"
    /\ \A id \in Networks :
          LET rows == History(id)
          IN  \A k \in 1..Len(rows) :
                  rows[k].downtime_seconds # NULL
                  => /\ rows[k].state = "UP"
                     /\ k > 1
                     /\ rows[k - 1].state = "DOWN"
    /\ (/\ call.op = "update_state"
        /\ call.new_state = "UP"
        /\ result.previous_state = "UP")
       => result.downtime_seconds = NULL

\* DOWN, UP with a downtime, then UP again
C11_Witness ==
    /\ call.op = "update_state"
    /\ call.new_state = "UP"
    /\ result.transitioned
    /\ result.previous_state = "UP"
    /\ result.downtime_seconds = NULL
    /\ LET rows == History(call.network_id)
       IN  /\ Len(rows) = 3
           /\ rows[2].downtime_seconds = 1
           /\ rows[3].downtime_seconds = NULL

\* C12: on an accepted DOWN -> UP transition the downtime_seconds of the
\* result, the downtime_seconds of the StateRecord it persists and the
\* duration of the NETWORK_RESTORED event it emits are the same value.
C12_DowntimeSameEverywhere ==
    (/\ call.op = "update_state"
     /\ result.transitioned
     /\ result.previous_state = "DOWN"
     /\ result.new_state = "UP")
    => LET rows == History(call.network_id)
       IN  /\ rows[Len(rows)].state = "UP"
           /\ rows[Len(rows)].downtime_seconds = result.downtime_seconds
           /\ result.event.type = "NETWORK_RESTORED"
           /\ result.event.duration = result.downtime_seconds

C12_Witness ==
    /\ call.op = "update_state"
    /\ result.transitioned
    /\ result.previous_state = "DOWN"
    /\ result.new_state = "UP"
    /\ result.downtime_seconds = 2
    /\ result.event.duration = 2

C25_SelfLoopNotTransition ==
    (/\ call.op = "update_state"
     /\ result.previous_state = call.new_state)
    => ~result.transitioned

\* C26: update_state emits an INTERNET_DOWN event exactly when it accepts
\* UP -> DOWN and a NETWORK_RESTORED event exactly when it accepts
\* DOWN -> UP; first registration, self-loops, rejected calls and every
\* other accepted transition emit no event.
C26_EventsOnlyForOutageAndRecovery ==
    call.op = "update_state"
    => /\ result.event.type = "INTERNET_DOWN"
          <=> (/\ result.transitioned
               /\ result.previous_state = "UP"
               /\ result.new_state = "DOWN")
       /\ result.event.type = "NETWORK_RESTORED"
          <=> (/\ result.transitioned
               /\ result.previous_state = "DOWN"
               /\ result.new_state = "UP")
       /\ result.event.type \in {"INTERNET_DOWN", "NETWORK_RESTORED", None}

\* an accepted DEGRADED -> DOWN transition without an event
C26_Witness ==
    /\ call.op = "update_state"
    /\ result.transitioned
    /\ result.previous_state = "DEGRADED"
    /\ result.new_state = "DOWN"
    /\ result.event = NoEvent
    /\ LatestPersisted(call.network_id) = "DOWN"

\* C27: each accepted update_state call appends exactly one StateRecord
\* (network id, new state, timestamp, downtime) to the history and changes
\* or removes no earlier record; a rejected call and every other step
\* leave the history unchanged; after a call the current state of the
\* network is the state of its last record.
C27_HistoryAppendOnly ==
    [][/\ \A id \in Networks : \A to \in NetworkState :
             IsCall(id, to)
             => /\ network_states' =
                       IF result'.transitioned
                       THEN Append(network_states,
                                   [network_id |-> id, state |-> to,
                                    timestamp |-> now,
                                    downtime_seconds |->
                                        result'.downtime_seconds])
                       ELSE network_states
                /\ _states'[id] = LatestPersisted(id)'
       /\ call'.op # "update_state" => network_states' = network_states]_vars

\* three accepted calls for one network: three records in call order
C27_Witness ==
    /\ call.op = "update_state"
    /\ LET rows == History(call.network_id)
       IN  /\ Len(rows) = 3
           /\ rows[1].state = "UP"
           /\ rows[2].state = "DOWN"
           /\ rows[3].state = "RECOVERING"
           /\ rows[1].timestamp < rows[3].timestamp
    /\ _states[call.network_id] = "RECOVERING"

\* C31: an outage that ends through DOWN -> RECOVERING -> UP has its
\* downtime accounted: the update that brings the network back to UP
\* reports and persists a downtime_seconds equal to the time elapsed since
\* the network entered DOWN, and the down-since tracker holds no entry for
\* the network afterwards.
C31_DowntimeThroughRecovering ==
    LET rows == History(call.network_id)
        last == Len(rows)
    IN  (/\ call.op = "update_state"
         /\ result.transitioned
         /\ result.previous_state = "RECOVERING"
         /\ result.new_state = "UP"
         /\ last >= 3
         /\ rows[last - 1].state = "RECOVERING"
         /\ rows[last - 2].state = "DOWN")
        => /\ result.downtime_seconds =
                  rows[last].timestamp - EnteredDownAt(rows, last - 2)
           /\ rows[last].downtime_seconds = result.downtime_seconds
           /\ _down_since[call.network_id] = NULL

C36_RestoredCompensatesDown ==
    \A i \in 1..Len(engine_events) :
        engine_events[i].type = "NETWORK_RESTORED"
        => \E j \in 1..(i - 1) :
               /\ engine_events[j].network_id = engine_events[i].network_id
               /\ engine_events[j].type = "INTERNET_DOWN"
               /\ \A k \in (j + 1)..(i - 1) :
                      ~(/\ engine_events[k].network_id =
                               engine_events[i].network_id
                        /\ engine_events[k].type = "NETWORK_RESTORED")

-----------------------------------------------------------------------------
(* Properties of the engine fed by the classifier, checked under
   SpecClassifier *)

\* C33: if from some cycle on every cycle is one of the same network for
\* which TruthEngine.evaluate yields the same state X (UP, DEGRADED or
\* DOWN), and each result is passed to update_state, then the stored
\* current state of the network eventually equals X, whatever state it was
\* in before.
C33_StoredFollowsClassifier ==
    \A id \in Networks : \A X \in {"UP", "DEGRADED", "DOWN"} :
        []([](/\ call.op = "cycle"
              /\ call.network_id = id
              /\ call.new_state = X)
           => <>(CurrentState(id) = X))

-----------------------------------------------------------------------------
(* Properties of update_state calls in progress at once, checked under
   SpecConcurrent *)

-----------------------------------------------------------------------------
(* Properties of the event detector, checked under SpecDetector *)

\* the last two analyze calls: PrevCall, then LastCall
TwoCalls == Len(log) >= 2
PrevCall == log[Len(log) - 1]
LastCall == log[Len(log)]

\* C3: from a detector whose previous verdict is Healthy and whose last
\* status-change event is older than the cooldown, two consecutive analyze
\* calls with the same degraded-class verdict emit exactly one
\* NETWORK_STATUS_CHANGE event in total.
C3_SustainedDegradationEmitsOnce ==
    (/\ TwoCalls
     /\ PrevCall.previous_verdict = "Healthy"
     /\ PrevCall.cooled
     /\ PrevCall.verdict \in DegradedClass
     /\ LastCall.verdict = PrevCall.verdict)
    => PrevCall.status_change + LastCall.status_change = 1

\* C4: an analyze call with an offline verdict directly after one with an
\* online verdict emits INTERNET_DOWN, and an analyze call with an online
\* verdict directly after one with an offline verdict emits
\* NETWORK_RESTORED, whatever the counters and the cooldown are.
C4_ImmediateDownAndRestored ==
    TwoCalls
    => /\ (PrevCall.verdict \in OnlineVerdicts
           /\ LastCall.verdict \notin OnlineVerdicts)
          => CountType(events, "INTERNET_DOWN") = 1
       /\ (PrevCall.verdict \notin OnlineVerdicts
           /\ LastCall.verdict \in OnlineVerdicts)
          => CountType(events, "NETWORK_RESTORED") = 1

\* C8: with required_sustained_cycles = 2, a single degraded-class cycle
\* directly preceded and directly followed by Healthy cycles causes no
\* NETWORK_STATUS_CHANGE event, neither in the degraded cycle nor in the
\* Healthy cycle after it.
C8_TransientDegradationSilent ==
    (/\ TwoCalls
     /\ PrevCall.previous_verdict = "Healthy"
     /\ PrevCall.verdict \in DegradedClass
     /\ LastCall.verdict = "Healthy")
    => /\ PrevCall.status_change = 0
       /\ LastCall.status_change = 0

C8_Witness ==
    /\ TwoCalls
    /\ PrevCall.previous_verdict = "Healthy"
    /\ PrevCall.verdict = "ISP Failure"
    /\ PrevCall.cooled
    /\ LastCall.verdict = "Healthy"
    /\ LastCall.cooled
    /\ state.verdict = "Healthy"
    /\ events = <<>>

\* C9: any two NETWORK_STATUS_CHANGE events of one detector, degradation
\* or recovery, are more than status_change_cooldown seconds apart.
C9_StatusChangesRespectCooldown ==
    \A i \in 1..Len(status_changes) : \A j \in 1..Len(status_changes) :
        i < j => status_changes[j] - status_changes[i]
                     > status_change_cooldown

C9_Witness ==
    /\ Len(status_changes) >= 2
    /\ CountType(events, "NETWORK_STATUS_CHANGE") = 1
    /\ events[1].kind = "recovered"
    /\ degraded_count = 0

\* C14: the NETWORK_STATUS_CHANGE events emitted for the snapshots of a
\* network are the same whether or not snapshots of another network are
\* analysed in between: every analyze call on a snapshot of
\* ReferenceNetwork emits as many of them as the same call on a detector
\* that was given the snapshots of ReferenceNetwork only.
C14_DebouncePerNetwork ==
    (call.op = "analyze" /\ call.network_id = ReferenceNetwork)
    => CountType(events, "NETWORK_STATUS_CHANGE")
           = CountType(solo.events, "NETWORK_STATUS_CHANGE")

\* C15: at the end of every analyze call the remembered verdict is the
\* verdict of the snapshot just analysed and the remembered online flag is
\* the online status computed for that snapshot.
C15_StateFollowsSnapshot ==
    Len(log) >= 1
    => /\ state.verdict = LastCall.verdict
       /\ state.online = IF LastCall.verdict \in OnlineVerdicts
                         THEN "True"
                         ELSE "False"

\* C29: a degradation NETWORK_STATUS_CHANGE event is emitted in a cycle
\* only if the verdict was in the degraded class in that cycle and, with
\* required_sustained_cycles = 2, in the cycle directly before it.
C29_DegradationNeedsConsecutiveCycles ==
    (\E i \in 1..Len(events) : events[i] = StatusChange("degraded"))
    => /\ TwoCalls
       /\ LastCall.verdict \in DegradedClass
       /\ PrevCall.verdict \in DegradedClass

\* C30: when the cycle after a degradation event is Healthy and the cycle
\* after that is Healthy too and starts after the cooldown has elapsed,
\* exactly one recovery NETWORK_STATUS_CHANGE event is emitted in those
\* two cycles.
C30_RecoveryEmittedOnce ==
    (/\ TwoCalls
     /\ PrevCall.after_alert = 1
     /\ PrevCall.previous_verdict \in DegradedClass
     /\ PrevCall.verdict = "Healthy"
     /\ LastCall.verdict = "Healthy"
     /\ LastCall.cooled)
    => PrevCall.status_change + LastCall.status_change = 1

-----------------------------------------------------------------------------
(* Properties of the observer loop, checked under SpecObserver *)

\* C5: every cycle of observe() in which no gateway is detected persists
\* a record under the offline network identity, a diagnostic run or a
\* state-history record, carrying the time of the cycle.
C5_OfflineCyclePersisted ==
    (call.op = "observe" /\ call.offline /\ ~call.raised)
    => \/ \E i \in 1..Len(diagnostic_runs) :
              /\ diagnostic_runs[i].network_id = "offline-state"
              /\ diagnostic_runs[i].timestamp = call.time
       \/ \E i \in 1..Len(network_states) :
              /\ network_states[i].network_id = "offline-state"
              /\ network_states[i].timestamp = call.time

-----------------------------------------------------------------------------
(* Properties of run_diagnostics, checked under SpecDiagnostics *)

\* C16: run_diagnostics, called with a router IP, returns a result record
\* for every combination of probe outcomes, a probe that ends with an
\* unexpected error included: no exception leaves run_diagnostics.
C16_DiagnosticsNeverRaises ==
    call.op = "run_diagnostics" => ~diagnosis.outcome.raised

\* C17: in every returned result the checks are short-circuited in the
\* order router, internet, DNS, HTTP, quality: when a check fails every
\* later boolean is FALSE, latency and loss are null, no later probe has
\* been executed and the verdict names the first failing level.
C17_ShortCircuit ==
    (call.op = "run_diagnostics" /\ ~diagnosis.outcome.raised)
    => LET d == diagnosis.outcome.value
           executed == diagnosis.executed
       IN  /\ {d.router_reachable, d.internet_reachable, d.dns_ok, d.http_ok}
                  \subseteq BOOLEAN
           /\ ~d.router_reachable
              => /\ ~d.internet_reachable /\ ~d.dns_ok /\ ~d.http_ok
                 /\ d.avg_latency = NULL /\ d.packet_loss = NULL
                 /\ executed = <<"router">>
                 /\ d.verdict = "No Network Connection"
           /\ (d.router_reachable /\ ~d.internet_reachable)
              => /\ ~d.dns_ok /\ ~d.http_ok
                 /\ d.avg_latency = NULL /\ d.packet_loss = NULL
                 /\ executed = <<"router", "internet">>
                 /\ d.verdict = "ISP Outage"
           /\ (d.router_reachable /\ d.internet_reachable /\ ~d.dns_ok)
              => /\ ~d.http_ok
                 /\ d.avg_latency = NULL /\ d.packet_loss = NULL
                 /\ executed = <<"router", "internet", "dns">>
                 /\ d.verdict = "DNS Resolution Failed"
           /\ (/\ d.router_reachable /\ d.internet_reachable /\ d.dns_ok
               /\ ~d.http_ok)
              => /\ d.avg_latency = NULL /\ d.packet_loss = NULL
                 /\ executed = <<"router", "internet", "dns", "http">>
                 /\ d.verdict = "Web Access Issue"

\* the internet check fails although DNS and HTTP would have succeeded
C17_Witness ==
    /\ call.op = "run_diagnostics"
    /\ ~diagnosis.outcome.raised
    /\ diagnosis.probe.router
    /\ ~diagnosis.probe.internet
    /\ diagnosis.probe.dns
    /\ diagnosis.probe.http
    /\ diagnosis.probe.latency = 15
    /\ diagnosis.outcome.value.verdict = "ISP Outage"

\* C18: when all four reachability checks pass and the quality sample
\* yields latency L and loss P, the verdict is unstable if P >= 20,
\* otherwise slow if L >= 200, otherwise degraded if P >= 10 or L >= 100,
\* otherwise healthy.
C18_QualityThresholds ==
    (/\ call.op = "run_diagnostics"
     /\ ~diagnosis.outcome.raised
     /\ diagnosis.outcome.value.http_ok
     /\ diagnosis.probe.latency # NULL
     /\ diagnosis.probe.loss # NULL)
    => LET L == diagnosis.probe.latency
           P == diagnosis.probe.loss
           verdict == diagnosis.outcome.value.verdict
       IN  /\ diagnosis.outcome.value.avg_latency = L
           /\ diagnosis.outcome.value.packet_loss = P
           /\ verdict = "Unstable Connection" <=> P >= 20
           /\ verdict = "Slow Connection" <=> (P < 20 /\ L >= 200)
           /\ verdict = "Degraded Performance"
                  <=> (P < 20 /\ L < 200 /\ (P >= 10 \/ L >= 100))
           /\ verdict = "Connected" <=> (P < 10 /\ L < 100)

\* loss 19 % and latency 199 ms: neither unstable nor slow
C18_Witness ==
    /\ call.op = "run_diagnostics"
    /\ ~diagnosis.outcome.raised
    /\ diagnosis.outcome.value.http_ok
    /\ diagnosis.probe.latency = 199
    /\ diagnosis.probe.loss = 19
    /\ diagnosis.outcome.value.verdict = "Degraded Performance"

-----------------------------------------------------------------------------
(* Properties of diagnostics passed to the detector, checked under
   SpecPipeline *)

\* C35: the pipeline and the detector agree on verdicts: for every result
\* run_diagnostics can return, analyze computes online = true when all
\* four checks passed and online = false when the router or the internet
\* check failed, and on a change of verdict it takes its recovery branch
\* for the healthy verdict and its degradation branch for the
\* quality-degraded and application-failure verdicts.
C35_PipelineAndDetectorAgree ==
    (call.op = "cycle" /\ ~call.raised)
    => LET data == diagnosis.outcome.value
           entry == log[Len(log)]
           changed == /\ entry.previous_verdict # None
                      /\ entry.previous_verdict # entry.verdict
       IN  /\ (/\ data.router_reachable
               /\ data.internet_reachable
               /\ data.dns_ok
               /\ data.http_ok)
              => entry.online
           /\ (~data.router_reachable \/ ~data.internet_reachable)
              => ~entry.online
           /\ (changed /\ data.verdict = "Connected") => entry.recovering
           /\ (/\ changed
               /\ data.verdict \in {"Unstable Connection", "Slow Connection",
                                    "Degraded Performance",
                                    "Web Access Issue"})
              => entry.degrading

-----------------------------------------------------------------------------
(* Properties of EventFactory.create_event, checked under SpecEvents *)

\* a value that is missing, not a string, empty or whitespace-only
Unusable(value) ==
    \/ value.type # "str"
    \/ \A i \in 1..Len(value.text) : value.text[i] \in Whitespace

\* C19: create_event raises a validation error and returns no event when
\* event_type has no registry entry or when device_id, network_id or
\* description is missing, not a string, empty or whitespace-only; every
\* event it returns carries its arguments and the category, severity,
\* summary, verdict and resolved values of the registry entry of its type.
C19_CreateEventValidates ==
    call.op = "create_event"
    => /\ (\/ creation.event_type \notin
                  {"INTERNET_DOWN", "NETWORK_RESTORED", "NETWORK_SWITCH",
                   "NETWORK_STATUS_CHANGE"}
           \/ Unusable(creation.device_id)
           \/ Unusable(creation.network_id)
           \/ Unusable(creation.description))
          => creation.outcome.raised
       /\ ~creation.outcome.raised
          => LET event == creation.outcome.value
                 entry == EVENT_DEFINITIONS[creation.event_type]
             IN  /\ event.type = creation.event_type
                 /\ event.category = entry.category
                 /\ event.severity = entry.severity
                 /\ event.summary = entry.summary
                 /\ event.verdict = entry.verdict
                 /\ event.resolved = entry.resolved
                 /\ event.device_id = creation.device_id
                 /\ event.network_id = creation.network_id
                 /\ event.description = creation.description

\* a registered type with a whitespace-only description is refused
C19_Witness ==
    /\ call.op = "create_event"
    /\ creation.event_type = "NETWORK_RESTORED"
    /\ creation.device_id.text = <<"a">>
    /\ creation.network_id.text = <<"a", " ">>
    /\ creation.description.text = <<" ", "\t">>
    /\ creation.outcome.raised

\* C28: when add_event_definition(t, d) has returned for a definition d
\* with a valid category and severity, a call of create_event with event
\* type t and usable device_id, network_id and description succeeds and
\* returns an event with d's category, severity, summary, verdict and
\* resolved values, for every event type string t.
C28_AddedDefinitionUsable ==
    [][(/\ call.op = "add_event_definition"
        /\ ~call.raised
        /\ call'.op = "create_event"
        /\ call'.event_type = call.event_type
        /\ ~Unusable(creation'.device_id)
        /\ ~Unusable(creation'.network_id)
        /\ ~Unusable(creation'.description))
       => /\ ~creation'.outcome.raised
          /\ creation'.outcome.value.category = call.definition.category
          /\ creation'.outcome.value.severity = call.definition.severity
          /\ creation'.outcome.value.summary = call.definition.summary
          /\ creation'.outcome.value.verdict = call.definition.verdict
          /\ creation'.outcome.value.resolved = call.definition.resolved]_vars

-----------------------------------------------------------------------------
(* Properties of the loop of observe(), checked under SpecObserverLoop *)

\* C21: once the shutdown handler has set running to false no new cycle is
\* started; a cycle in progress runs to completion, saving its run and its
\* events; an interval sleep in progress ends after at most one more
\* one-second step; and observe() then returns: until it has, a step of
\* observe() is always possible.
C21_ShutdownStopsLoop ==
    [][~running
       => /\ pc' = "cycle" => pc = "cycle"
          /\ (/\ pc = "cycle"
              /\ pc' = "sleep"
              /\ ~call'.raised
              /\ ~call'.offline)
             => /\ Len(diagnostic_runs') = Len(diagnostic_runs) + 1
                /\ diagnostic_runs'[Len(diagnostic_runs')].network_id =
                       call'.network_id
                /\ event_store' = event_store \o events'
          /\ pc = "sleeping" => (pc' = "sleep" /\ now' = now + 1)
          /\ pc = "sleep" => (pc' = "while" /\ now' = now)
          /\ pc = "while" => ~observing']_vars
    /\ []((~running /\ observing) => ENABLED ObserveProgress)

\* running was set to false during a cycle, which then saved its run, and
\* the sleep loop that follows still has iterations left
C21_Witness ==
    /\ ~running
    /\ pc = "sleep"
    /\ sleep_left > 0
    /\ call.op = "observe"
    /\ ~call.raised
    /\ ~call.offline
    /\ Len(diagnostic_runs) = 1
    /\ diagnostic_runs[1].timestamp = call.time

\* C22: after a cycle that took e seconds, observe() sleeps interval - e
\* seconds when e <= interval and 0 seconds otherwise, so that without a
\* shutdown a cycle that follows one of at most interval seconds starts
\* interval seconds after it.
C22_IntervalHolds ==
    [][/\ (pc = "cycle" /\ pc' = "sleep")
          => sleep_left' * TicksPerSecond =
                 sleep_time(time_time' - start_time)
       /\ (pc = "while" /\ pc' = "cycle" /\ start_time # NULL)
          => start_time' - start_time >=
                 DEFAULT_INTERVAL * TicksPerSecond]_vars

-----------------------------------------------------------------------------
(* Properties of the loop of automation/observe.py, checked under
   SpecAutomation *)

\* C37: a cycle that is skipped because no router IP is detected or because
\* diagnostics return no data still waits for the remainder of the interval
\* before the next cycle starts: a pass of the loop never starts less than
\* the interval after the pass before it started.
C37_SkippedCycleStillWaits ==
    [][(pc = "while" /\ pc' = "cycle" /\ start_time # NULL)
       => start_time' - start_time >=
              AUTOMATION_DEFAULT_INTERVAL * TicksPerSecond]_vars

-----------------------------------------------------------------------------
(* Properties of network identification, checked under SpecFingerprint *)

\* a fingerprint value read from the host
Known(value) == value # None /\ value # "unknown"

\* C23: generate_network_id depends on the stable fields only: a
\* fingerprint always gets the same id, and two fingerprints with equal
\* default_gateway and mac_address, at least one of them known, get the
\* same id whatever their public_ip, hostname, local_ip and system_platform
\* are.
C23_IdFromStableFieldsOnly ==
    call.op = "identify"
    => /\ call.fingerprint = call.other
          => call.identity.generated = call.other_identity.generated
       /\ (/\ call.fingerprint.default_gateway = call.other.default_gateway
           /\ call.fingerprint.mac_address = call.other.mac_address
           /\ \/ Known(call.fingerprint.default_gateway)
              \/ Known(call.fingerprint.mac_address))
          => call.identity.generated = call.other_identity.generated

\* two fingerprints without a gateway, with the same MAC address and
\* different other fields, get one id
C23_Witness ==
    /\ call.op = "identify"
    /\ call.fingerprint.default_gateway = None
    /\ call.other.default_gateway = None
    /\ call.fingerprint.mac_address = "aa:bb:cc:dd:ee:ff"
    /\ call.other.mac_address = "aa:bb:cc:dd:ee:ff"
    /\ call.fingerprint.local_ip # call.other.local_ip
    /\ call.fingerprint.public_ip # call.other.public_ip
    /\ call.fingerprint.hostname # call.other.hostname
    /\ call.fingerprint.system_platform # call.other.system_platform
    /\ call.identity.generated = call.other_identity.generated

\* C24: when default_gateway and mac_address are both unknown the identity
\* is derived from local_ip; when local_ip is unknown too the identity is
\* the offline sentinel, which differs from the identity of every
\* fingerprint that has a known gateway, MAC address or local IP.
C24_FallbackChain ==
    call.op = "identify"
    => LET fingerprint == call.fingerprint
           other == call.other
           stable_unknown == /\ ~Known(fingerprint.default_gateway)
                             /\ ~Known(fingerprint.mac_address)
       IN  /\ (stable_unknown /\ Known(fingerprint.local_ip))
              => call.identity.assigned = sha256_16(<<fingerprint.local_ip>>)
           /\ (/\ stable_unknown
               /\ ~Known(fingerprint.local_ip)
               /\ \/ Known(other.default_gateway)
                  \/ Known(other.mac_address)
                  \/ Known(other.local_ip))
              => call.other_identity.assigned # call.identity.assigned

-----------------------------------------------------------------------------
(* Properties of the observer loop under exceptions, checked under
   SpecObserver *)

====
